---- MODULE Spec2Model ----
(***************************************************************************)
(* A model of the student/mentor tracking portal (src/base): the tables of *)
(* models.py as sets of rows, and one action per view of views.py.  A view *)
(* that wraps its writes in transaction.atomic() after an unlocked check   *)
(* is two steps (the check, then the atomic block), so that concurrent     *)
(* requests interleave between them; every other view is one step.         *)
(* Free-text columns (title, tags, content, names, phone, bio, skills,     *)
(* password) carry no decision of any view and are left out of the rows.   *)
(***************************************************************************)
EXTENDS Integers, Sequences, FiniteSets, Bags, TLC

\* ---------------------------------------------------------------- bounds
MaxUsers == 2       \* User rows ever inserted
MaxReports == 1     \* Report rows ever inserted
MaxItems == 1       \* Task rows, and Project rows, ever inserted
MaxCourses == 2     \* Course rows
MaxProgress == 1    \* StudentCourseProgress rows ever inserted
MaxReactions == 2   \* EmojiReaction rows

\* ------------------------------------------------------------- constants
STUDENT == "student"
MENTOR == "mentor"
UserType == {STUDENT, MENTOR}
STATUS_CHOICES == {"draft", "submitted", "reviewed", "approved"}
EMOJIS == {"like", "love", "fire", "surprised", "insightful"}

\* request.POST.get(...) of a field the form did not send
None == "None"
\* request.user of a request that carries no session
Anonymous == 0

\* Option rows: no view inserts or deletes one
Options == {"Backend", "Frontend"}

VARIABLES
    User,                   \* [id, username, email, user_type]
    StudentProfile,         \* [id, user, option]
    MentorProfile,          \* [id, user, option]
    Report,                 \* [id, student, option, status, hours_worked, mark]
    Task,                   \* [id, option, mentor, students]
    Project,                \* [id, option, mentor, students]
    Course,                 \* [id, option, order]
    StudentCourseProgress,  \* [id, student, course, completed, reacted]
    EmojiReaction,          \* [student, course, emoji]
    Notification,           \* [id, user, is_read]
    inflight,               \* bag of the signup requests that passed their check
    seq,                    \* next primary key of each table
    resp                    \* the response to the last request

db == <<User, StudentProfile, MentorProfile, Report, Task, Project, Course,
        StudentCourseProgress, EmojiReaction, Notification>>
vars == <<User, StudentProfile, MentorProfile, Report, Task, Project, Course,
          StudentCourseProgress, EmojiReaction, Notification,
          inflight, seq, resp>>

\* ---------------------------------------------------------------- helpers
Row(table, id) == CHOOSE r \in table : r.id = id
HasRow(table, id) == \E r \in table : r.id = id
UserIds == {u.id : u \in User}
user_type(u) == Row(User, u).user_type

\* hasattr(user, "student_profile") / get_object_or_404(StudentProfile, user=u)
HasStudentProfile(u) == \E p \in StudentProfile : p.user = u
HasMentorProfile(u) == \E p \in MentorProfile : p.user = u
StudentOf(u) == CHOOSE p \in StudentProfile : p.user = u
MentorOf(u) == CHOOSE p \in MentorProfile : p.user = u

\* int(s) / float(s) / IntegerField.get_prep_value(s) of a posted string:
\* the number, or -1 for the ValueError / TypeError the conversion raises
ParseNumber(s) ==
    CASE s = "0" -> 0
      [] s = "1" -> 1
      [] s = "2" -> 2
      [] s = "3" -> 3
      [] s = "8" -> 8
      [] OTHER -> -1

\* What a request was and how it ended: the view, request.user, the pk in the URL
\* (0 when the route has none), the outcome (render, a redirect, forbidden = 403,
\* notfound = 404, error = an uncaught exception), the flash message and the
\* template context
Response(view, u, arg, outcome, msg, shown) ==
    [view |-> view, user |-> u, arg |-> arg, outcome |-> outcome, msg |-> msg, shown |-> shown]

NoResponse == Response("none", Anonymous, 0, "none", "none", <<>>)

\* @login_required / request.user.is_authenticated: the request carries the session
\* of an existing user.  Sessions live in the client's cookie; every user can hold
\* one at any time (signup and login_user open it), so a requester is any user.
Authenticated(u) == u \in UserIds
Requesters == UserIds \cup {Anonymous}

\* ------------------------------------------------------------ form inputs
Usernames == {"alice", "bob"}
Emails == {"a@x", "b@x"}
MentorEmails == {"m@x"}
OptionInputs == Options \cup {"Nope"}

\* --------------------------------------------------------- authentication
Request(view, username, email, option) ==
    [view |-> view, username |-> username, email |-> email, option |-> option]
\* every admitted request can still insert its User row
CanAdmit == seq.User + BagCardinality(inflight) <= MaxUsers

\* User.objects.filter(Q(email=email) | Q(username=username)).exists()
Taken(username, email) == \E u \in User : u.email = email \/ u.username = username

\* UserManager.create_user: the given username must be set, and the column is unique
CreateUserFails(username) == username = "" \/ \E u \in User : u.username = username

\* MentorProfile.objects.filter(option=option).exists()
MentorAssigned(option) == \E p \in MentorProfile : p.option = option

\* MentorProfile.option as a plain ForeignKey: no row is refused
MentorOptionTaken_NotUnique(option) == FALSE

\* MentorProfile.option is a OneToOneField: a second row for the option is an IntegrityError
MentorOptionTaken(option) == \E p \in MentorProfile : p.option = option

\* StudentProfile.objects.create(user=user, option=option)
NewStudentProfile(id, option) == [id |-> seq.StudentProfile, user |-> id, option |-> option]

\* the mentor profile attached to the user inserted before this one
NewMentorProfile_WrongUser(id, option) ==
    [id |-> seq.MentorProfile, user |-> IF id > 1 THEN id - 1 ELSE id, option |-> option]

\* MentorProfile.objects.create(user=user, option=option)
NewMentorProfile(id, option) == [id |-> seq.MentorProfile, user |-> id, option |-> option]

\* signup / mentor_signup / login_user, lines 26-27, 67-68, 108-109 (an authenticated
\* requester is sent home) and the GET pages
auth_page(view, c) ==
    /\ view \in {"signup", "mentor_signup", "login"}
    /\ c \in Requesters
    /\ resp' = IF c # Anonymous
               THEN Response(view, c, 0, "redirect_home", "none", <<>>)
               ELSE Response(view, c, 0, "render", "none", <<>>)
    /\ UNCHANGED <<db, inflight, seq>>

\* signup, POST, up to the atomic block: the "already taken" check and the option lookup
signup(username, email, option) ==
    /\ CanAdmit
    /\ IF Taken(username, email) \/ option \notin Options
       THEN /\ resp' = Response("signup", Anonymous, 0, "redirect_signup", "error", <<>>)
            /\ UNCHANGED inflight
       ELSE /\ inflight' = inflight (+) SetToBag({Request("signup", username, email, option)})
            /\ UNCHANGED resp
    /\ UNCHANGED <<db, seq>>

\* mentor_signup, POST, up to the atomic block: the option lookup and the
\* "mentor already assigned" check
mentor_signup(username, email, option) ==
    /\ CanAdmit
    /\ IF option \notin Options \/ MentorAssigned(option)
       THEN /\ resp' = Response("mentor_signup", Anonymous, 0, "redirect_mentor_signup", "error", <<>>)
            /\ UNCHANGED inflight
       ELSE /\ inflight' = inflight (+) SetToBag({Request("mentor_signup", username, email, option)})
            /\ UNCHANGED resp
    /\ UNCHANGED <<db, seq>>

\* signup, the transaction.atomic() block and the handler's except clause, whose
\* message carries the exception
signup_atomic(r) ==
    /\ BagIn(r, inflight) /\ r.view = "signup"
    /\ LET id == seq.User
       IN IF CreateUserFails(r.username)
          THEN /\ resp' = Response("signup", Anonymous, 0, "redirect_signup", "exception", <<>>)
               /\ UNCHANGED <<User, StudentProfile, seq>>
          ELSE /\ User' = User \cup {[id |-> id, username |-> r.username,
                                      email |-> r.email, user_type |-> STUDENT]}
               /\ StudentProfile' = StudentProfile \cup {NewStudentProfile(id, r.option)}
               /\ seq' = [seq EXCEPT !.User = @ + 1, !.StudentProfile = @ + 1]
               /\ resp' = Response("signup", id, 0, "redirect_home", "success", <<>>)
    /\ inflight' = inflight (-) SetToBag({r})
    /\ UNCHANGED <<MentorProfile, Report, Task, Project, Course,
                   StudentCourseProgress, EmojiReaction, Notification>>

\* mentor_signup, the transaction.atomic() block and the handler's except clause
mentor_signup_atomic(r) ==
    /\ BagIn(r, inflight) /\ r.view = "mentor_signup"
    /\ LET id == seq.User
       IN IF CreateUserFails(r.username) \/ MentorOptionTaken(r.option)
          THEN /\ resp' = Response("mentor_signup", Anonymous, 0, "redirect_mentor_signup", "exception", <<>>)
               /\ UNCHANGED <<User, MentorProfile, seq>>
          ELSE /\ User' = User \cup {[id |-> id, username |-> r.username,
                                      email |-> r.email, user_type |-> MENTOR]}
               /\ MentorProfile' = MentorProfile \cup {NewMentorProfile(id, r.option)}
               /\ seq' = [seq EXCEPT !.User = @ + 1, !.MentorProfile = @ + 1]
               /\ resp' = Response("mentor_signup", id, 0, "redirect_home", "success", <<>>)
    /\ inflight' = inflight (-) SetToBag({r})
    /\ UNCHANGED <<StudentProfile, Report, Task, Project, Course,
                   StudentCourseProgress, EmojiReaction, Notification>>

\* login_user, line 83-89: the view a logged-in user is sent to
LoginRedirect(type) ==
    CASE type = MENTOR -> "redirect_mentor_dashboard"
      [] type = STUDENT -> "redirect_home"
      [] OTHER -> "redirect_logout"

\* login_user, POST: authenticate() finds the user of that name when the password matches
login_user(username, password_ok) ==
    /\ IF password_ok /\ \E u \in User : u.username = username
       THEN LET u == CHOOSE u \in User : u.username = username
            IN resp' = Response("login", u.id, 0, LoginRedirect(u.user_type), "success", <<>>)
       ELSE resp' = Response("login", Anonymous, 0, "render", "error", <<>>)
    /\ UNCHANGED <<db, inflight, seq>>

logout_user(c) ==
    /\ Authenticated(c)
    /\ resp' = Response("logout", c, 0, "redirect_login", "none", <<>>)
    /\ UNCHANGED <<db, inflight, seq>>

\* Project.objects.filter(students=student).count()
ProjectsOf(sp) == Cardinality({p \in Project : sp \in p.students})
ReportsOf(u) == {r \in Report : r.student = u}

\* user_profile: User.save() fails on a missing username (NOT NULL), a missing email
\* (NOT NULL) and a username another row holds (unique)
ProfileSaveFails(c, username, email) ==
    \/ username = None
    \/ email = None
    \/ \E u \in User : u.id # c /\ u.username = username

user_profile(c, method, username, email) ==
    /\ Authenticated(c)
    /\ LET student == user_type(c) = STUDENT
           counts == <<Cardinality(ReportsOf(c)),
                       IF student /\ HasStudentProfile(c) THEN ProjectsOf(StudentOf(c).id) ELSE 0>>
       IN IF student /\ ~HasStudentProfile(c)
          THEN /\ resp' = Response("profile", c, 0, "notfound", "none", <<>>)
               /\ UNCHANGED User
          ELSE IF method = "GET"
          THEN /\ resp' = Response("profile", c, 0, "render", "none", counts)
               /\ UNCHANGED User
          ELSE IF ProfileSaveFails(c, username, email)
          THEN /\ resp' = Response("profile", c, 0, "render", "error", counts)
               /\ UNCHANGED User
          ELSE /\ User' = (User \ {Row(User, c)}) \cup
                      {[Row(User, c) EXCEPT !.username = username, !.email = email]}
               /\ resp' = Response("profile", c, 0, "redirect_profile", "success", <<>>)
    /\ UNCHANGED <<StudentProfile, MentorProfile, Report, Task, Project, Course,
                   StudentCourseProgress, EmojiReaction, Notification, inflight, seq>>

\* ----------------------------------------------------------------- reports
StatusInputs == STATUS_CHOICES \cup {"bogus", None}
HoursInputs == {"2", "abc"}
MarkInputs == {"8", "abc", None}
Methods == {"GET", "POST"}

\* Report.objects.create / report.save(): float(hours) raises on a non-number, and
\* the status column is NOT NULL (its choices are not checked on save)
ReportWriteFails(status, hours) == ParseNumber(hours) < 0 \/ status = None

\* create_report
create_report(c, method, status, hours) ==
    /\ Authenticated(c)
    /\ LET mine == <<ReportsOf(c)>>
       IN IF user_type(c) # STUDENT
          THEN /\ resp' = Response("reports", c, 0, "forbidden", "none", <<>>)
               /\ UNCHANGED <<Report, seq>>
          ELSE IF method # "POST"
          THEN /\ resp' = Response("reports", c, 0, "render", "none", mine)
               /\ UNCHANGED <<Report, seq>>
          ELSE IF ~HasStudentProfile(c) \/ ReportWriteFails(status, hours)
          THEN /\ resp' = Response("reports", c, 0, "render", "error", mine)
               /\ UNCHANGED <<Report, seq>>
          ELSE /\ seq.Report <= MaxReports
               /\ Report' = Report \cup
                      {[id |-> seq.Report, student |-> c, option |-> StudentOf(c).option,
                        status |-> status, hours_worked |-> ParseNumber(hours), mark |-> 0]}
               /\ seq' = [seq EXCEPT !.Report = @ + 1]
               /\ resp' = Response("reports", c, 0, "redirect_reports", "success", <<>>)
    /\ UNCHANGED <<User, StudentProfile, MentorProfile, Task, Project, Course,
                   StudentCourseProgress, EmojiReaction, Notification, inflight>>

\* MaySee without the owner check of line 358
MaySee_NoOwnerCheck(c, report) ==
    IF user_type(c) = MENTOR
    THEN report.option = MentorOf(c).option
    ELSE user_type(c) = STUDENT

\* report_view, lines 345-362: who may see the report
MaySee(c, report) ==
    IF user_type(c) = MENTOR
    THEN report.option = MentorOf(c).option
    ELSE IF user_type(c) = STUDENT
    THEN report.student = c
    ELSE FALSE

\* report_view, lines 350-353: the report after a mentor's POST
Marked(report, mark) == [report EXCEPT !.mark = ParseNumber(mark)]

\* report_view
report_view(c, pk, method, mark) ==
    /\ Authenticated(c)
    /\ IF ~HasRow(Report, pk) \/ (user_type(c) = MENTOR /\ ~HasMentorProfile(c))
       THEN /\ resp' = Response("report-view", c, pk, "notfound", "none", <<>>)
            /\ UNCHANGED Report
       ELSE LET report == Row(Report, pk)
            IN IF ~MaySee(c, report)
               THEN /\ resp' = Response("report-view", c, pk, "forbidden", "none", <<>>)
                    /\ UNCHANGED Report
               ELSE IF user_type(c) = MENTOR /\ method = "POST"
               THEN IF ParseNumber(mark) < 0
                    THEN /\ resp' = Response("report-view", c, pk, "error", "none", <<>>)
                         /\ UNCHANGED Report
                    ELSE /\ Report' = (Report \ {report}) \cup {Marked(report, mark)}
                         /\ resp' = Response("report-view", c, pk, "render", "success",
                                             <<Marked(report, mark)>>)
               ELSE /\ resp' = Response("report-view", c, pk, "render", "none", <<report>>)
                    /\ UNCHANGED Report
    /\ UNCHANGED <<User, StudentProfile, MentorProfile, Task, Project, Course,
                   StudentCourseProgress, EmojiReaction, Notification, inflight, seq>>

\* OwnReport without the student filter
OwnReport_AnyStudent(c, pk) == \E r \in Report : r.id = pk

\* get_object_or_404(Report, pk=pk, student=request.user)
OwnReport(c, pk) == \E r \in Report : r.id = pk /\ r.student = c

\* Edited with the mark among the overwritten fields
Edited_ResetsMark(report, status, hours) ==
    [report EXCEPT !.status = status, !.hours_worked = ParseNumber(hours), !.mark = 0]

\* edit_report, lines 371-375: the fields the form overwrites
Edited(report, status, hours) ==
    [report EXCEPT !.status = status, !.hours_worked = ParseNumber(hours)]

\* edit_report
edit_report(c, pk, method, status, hours) ==
    /\ Authenticated(c)
    /\ IF ~OwnReport(c, pk)
       THEN /\ resp' = Response("edit", c, pk, "notfound", "none", <<>>)
            /\ UNCHANGED Report
       ELSE LET report == Row(Report, pk)
            IN IF method # "POST"
               THEN /\ resp' = Response("edit", c, pk, "render", "none", <<report>>)
                    /\ UNCHANGED Report
               ELSE IF ReportWriteFails(status, hours)
               THEN /\ resp' = Response("edit", c, pk, "error", "none", <<>>)
                    /\ UNCHANGED Report
               ELSE /\ Report' = (Report \ {report}) \cup {Edited(report, status, hours)}
                    /\ resp' = Response("edit", c, pk, "redirect_report-view", "success", <<>>)
    /\ UNCHANGED <<User, StudentProfile, MentorProfile, Task, Project, Course,
                   StudentCourseProgress, EmojiReaction, Notification, inflight, seq>>

\* delete_report
delete_report(c, pk, method) ==
    /\ Authenticated(c)
    /\ IF ~OwnReport(c, pk)
       THEN /\ resp' = Response("delete", c, pk, "notfound", "none", <<>>)
            /\ UNCHANGED Report
       ELSE LET report == Row(Report, pk)
            IN IF method # "POST"
               THEN /\ resp' = Response("delete", c, pk, "render", "none", <<report>>)
                    /\ UNCHANGED Report
               ELSE /\ Report' = Report \ {report}
                    /\ resp' = Response("delete", c, pk, "redirect_reports", "success", <<>>)
    /\ UNCHANGED <<User, StudentProfile, MentorProfile, Task, Project, Course,
                   StudentCourseProgress, EmojiReaction, Notification, inflight, seq>>

\* ----------------------------------------------------------------- courses
\* CoursesOf without the option filter
CoursesOf_AllOptions(option) == Course

\* Course.objects.filter(option=option)
CoursesOf(option) == {k \in Course : k.option = option}

\* .order_by("order"): the rows in ascending order of the column; the database
\* is free in how it places rows of equal order
OrderBy(rows) ==
    {l \in [1..Cardinality(rows) -> rows] :
        /\ \A i, j \in DOMAIN l : i # j => l[i] # l[j]
        /\ \A i, j \in DOMAIN l : i < j => l[i].order <= l[j].order}

\* StudentCourseProgress.objects.filter(student=student).in_bulk(): the student's
\* progress rows keyed by their own primary key
InBulk(sp) ==
    LET rows == {p \in StudentCourseProgress : p.student = sp}
    IN [k \in {p.id : p \in rows} |-> CHOOSE p \in rows : p.id = k]

\* courses, line 421: next(c for c in courses if c.id not in progress or not
\* progress[c.id].completed, None), as a list of at most one course
NextIncomplete(listing, progress) ==
    LET open == {i \in DOMAIN listing :
                    \/ listing[i].id \notin DOMAIN progress
                    \/ ~progress[listing[i].id].completed}
    IN IF open = {} THEN <<>>
       ELSE <<listing[CHOOSE i \in open : \A j \in open : i <= j]>>

\* courses, line 426: {cid for cid, p in progress.items() if p.completed}
CompletedIds(progress) == {k \in DOMAIN progress : progress[k].completed}

\* courses
courses(c) ==
    /\ Authenticated(c)
    /\ IF user_type(c) # STUDENT
       THEN resp' = Response("courses", c, 0, "redirect_home", "error", <<>>)
       ELSE IF ~HasStudentProfile(c)
       THEN resp' = Response("courses", c, 0, "notfound", "none", <<>>)
       ELSE LET student == StudentOf(c)
                progress == InBulk(student.id)
            IN \E listing \in OrderBy(CoursesOf(student.option)) :
                   resp' = Response("courses", c, 0, "render", "none",
                               <<listing, NextIncomplete(listing, progress),
                                 CompletedIds(progress),
                                 {e \in EmojiReaction : e.student = student.id}>>)
    /\ UNCHANGED <<db, inflight, seq>>

EmojiInputs == {"like", "fire", None}

\* JsonResponse({"status": ..., "error": ...}, status=...) of react_course
JsonResponse(status, http, error) ==
    [view |-> "react_course", outcome |-> status, http |-> http, error |-> error]

\* EmojiReaction without its unique_together
ReactionExists_NoConstraint(sp, course) == FALSE

\* unique_together = ("student", "course") of EmojiReaction
ReactionExists(sp, course) == \E e \in EmojiReaction : e.student = sp /\ e.course = course

\* react_course without the update of lines 453-455
MarkReacted_Skipped(sp, course) == StudentCourseProgress

\* StudentCourseProgress.objects.filter(student=, course=).update(reacted=True)
MarkReacted(sp, course) ==
    {IF p.student = sp /\ p.course = course THEN [p EXCEPT !.reacted = TRUE] ELSE p :
        p \in StudentCourseProgress}

\* react_course, lines 447-459: the exception the atomic block raises, if any
ReactError(c, course_id) ==
    IF ~HasStudentProfile(c) THEN "No StudentProfile matches the given query."
    ELSE IF ~HasRow(Course, course_id) THEN "No Course matches the given query."
    ELSE IF ReactionExists(StudentOf(c).id, course_id) THEN "UNIQUE constraint failed"
    ELSE "none"

\* react_course
react_course(c, course_id, emoji) ==
    /\ Authenticated(c)
    /\ IF user_type(c) # STUDENT
       THEN /\ resp' = JsonResponse("failed", 403, "Unauthorized")
            /\ UNCHANGED <<EmojiReaction, StudentCourseProgress>>
       ELSE IF emoji = None
       THEN /\ resp' = JsonResponse("failed", 400, "Invalid emoji")
            /\ UNCHANGED <<EmojiReaction, StudentCourseProgress>>
       ELSE IF ReactError(c, course_id) # "none"
       THEN /\ resp' = JsonResponse("failed", 400, ReactError(c, course_id))
            /\ UNCHANGED <<EmojiReaction, StudentCourseProgress>>
       ELSE /\ Cardinality(EmojiReaction) < MaxReactions
            /\ EmojiReaction' = EmojiReaction \cup
                   {[student |-> StudentOf(c).id, course |-> course_id, emoji |-> emoji]}
            /\ StudentCourseProgress' = MarkReacted(StudentOf(c).id, course_id)
            /\ resp' = JsonResponse("success", 200, "none")
    /\ UNCHANGED <<User, StudentProfile, MentorProfile, Report, Task, Project, Course,
                   Notification, inflight, seq>>

\* ------------------------------------------------- dashboards, items, lists
\* index
index(c) ==
    /\ Authenticated(c)
    /\ IF user_type(c) # STUDENT
       THEN resp' = Response("home", c, 0, "forbidden", "none", <<>>)
       ELSE IF ~HasStudentProfile(c)
       THEN resp' = Response("home", c, 0, "notfound", "none", <<>>)
       ELSE LET student == StudentOf(c).id
            IN resp' = Response("home", c, 0, "render", "none",
                           <<ReportsOf(c),
                             {t \in Task : student \in t.students},
                             {p \in Project : student \in p.students}>>)
    /\ UNCHANGED <<db, inflight, seq>>

\* the role check of mentor_dashboard and create_task switched off
MentorOnly_Off(c) == TRUE

\* mentor_dashboard line 145, create_task line 183
MentorOnly(c) == user_type(c) = MENTOR

\* mentor_dashboard
mentor_dashboard(c) ==
    /\ Authenticated(c)
    /\ IF ~MentorOnly(c)
       THEN resp' = Response("mentor_dashboard", c, 0, "forbidden", "none", <<>>)
       ELSE IF ~HasMentorProfile(c)
       THEN resp' = Response("mentor_dashboard", c, 0, "notfound", "none", <<>>)
       ELSE LET option == MentorOf(c).option
            IN resp' = Response("mentor_dashboard", c, 0, "render", "none",
                           <<{p \in StudentProfile : p.option = option},
                             {r \in Report : r.option = option},
                             {t \in Task : t.option = option},
                             {p \in Project : p.option = option}>>)
    /\ UNCHANGED <<db, inflight, seq>>

\* request.POST: the student ids, the type and the due date a mentor can post
StudentIdInputs == {{}, {"1"}, {"2"}, {"1", "2"}, {"1", "abc"}}
TypeInputs == {"task", "project"}
DueDateInputs == {"2026-01-01T10:00", "soon"}

\* DateTimeField.to_python of the posted due date: the value, or None for the
\* ValidationError of an unparsable string and the NOT NULL of a missing one
ParseDate(s) == IF s = "2026-01-01T10:00" THEN s ELSE None

\* create_task, lines 198-218: the insert and students.add(*student_ids) fail when
\* the due date is invalid or an id has no StudentProfile row (foreign key)
ItemWriteFails(student_ids, due_date) ==
    \/ ParseDate(due_date) = None
    \/ \E i \in student_ids : ~HasRow(StudentProfile, i)

\* the context of create.html without the filters
ItemContext_Unscoped(mentor) == <<Task, Project, StudentProfile, Report>>

\* create_task, lines 225-230: the context of create.html
ItemContext(mentor) ==
    <<{t \in Task : t.mentor = mentor.id},
      {p \in Project : p.mentor = mentor.id},
      {p \in StudentProfile : p.option = mentor.option},
      {r \in Report : r.option = mentor.option}>>

\* the block without transaction.atomic(): the inserted row stays, unassigned
Rollback_Autocommit(rows, row) == rows \cup {[row EXCEPT !.students = {}]}

\* transaction.atomic(), line 198: the insert of row is undone when the block raises
Rollback(rows, row) == rows

\* create_task, reached through the route named view.  The rows of
\* students.add() are checked against StudentProfile when the block commits, after
\* messages.success(); an invalid due date raises in create(), before it.
CreateItem(view, c, method, type, students, due_date) ==
    /\ Authenticated(c)
    /\ IF ~MentorOnly(c)
       THEN /\ resp' = Response(view, c, students, "forbidden", "none", <<>>)
            /\ UNCHANGED <<Task, Project, seq>>
       ELSE IF ~HasMentorProfile(c)
       THEN /\ resp' = Response(view, c, students, "notfound", "none", <<>>)
            /\ UNCHANGED <<Task, Project, seq>>
       ELSE LET mentor == MentorOf(c)
                student_ids == {ParseNumber(i) : i \in students}
                item(id) == [id |-> id, option |-> mentor.option, mentor |-> mentor.id,
                             students |-> student_ids]
            IN IF method # "POST"
               THEN /\ resp' = Response(view, c, students, "render", "none", ItemContext(mentor))
                    /\ UNCHANGED <<Task, Project, seq>>
               ELSE IF -1 \in student_ids
               THEN /\ resp' = Response(view, c, students, "render", "error", ItemContext(mentor))
                    /\ UNCHANGED <<Task, Project, seq>>
               ELSE IF student_ids = {}
               THEN /\ resp' = Response(view, c, students, "redirect_create_task", "error", <<>>)
                    /\ UNCHANGED <<Task, Project, seq>>
               ELSE IF ItemWriteFails(student_ids, due_date)
               THEN /\ Task' = IF type = "task" THEN Rollback(Task, item(seq.Task)) ELSE Task
                    /\ Project' = IF type = "task" THEN Project
                                  ELSE Rollback(Project, item(seq.Project))
                    /\ resp' = Response(view, c, students, "render",
                                   IF ParseDate(due_date) = None THEN "error"
                                   ELSE "success_error",
                                   <<{t \in Task' : t.mentor = mentor.id},
                                     {p \in Project' : p.mentor = mentor.id},
                                     {p \in StudentProfile : p.option = mentor.option},
                                     {r \in Report : r.option = mentor.option}>>)
                    /\ UNCHANGED seq
               ELSE IF type = "task"
               THEN /\ seq.Task <= MaxItems
                    /\ Task' = Task \cup {item(seq.Task)}
                    /\ seq' = [seq EXCEPT !.Task = @ + 1]
                    /\ resp' = Response(view, c, students, "redirect_create_task", "success", <<>>)
                    /\ UNCHANGED Project
               ELSE /\ seq.Project <= MaxItems
                    /\ Project' = Project \cup {item(seq.Project)}
                    /\ seq' = [seq EXCEPT !.Project = @ + 1]
                    /\ resp' = Response(view, c, students, "redirect_create_task", "success", <<>>)
                    /\ UNCHANGED Task
    /\ UNCHANGED <<User, StudentProfile, MentorProfile, Report, Course,
                   StudentCourseProgress, EmojiReaction, Notification, inflight>>

\* create_task
create_task(c, method, type, students, due_date) ==
    CreateItem("create_task", c, method, type, students, due_date)

\* create_project
create_project(c, method, type, students, due_date) ==
    CreateItem("create_project", c, method, type, students, due_date)

\* all_users
all_users(c) ==
    /\ Authenticated(c)
    /\ resp' = Response("classmates", c, 0, "render", "none",
                   <<{p \in StudentProfile : p.user # c}>>)
    /\ UNCHANGED <<db, inflight, seq>>

\* view_notifications: the queryset is evaluated by the template, after the update
view_notifications(c) ==
    /\ Authenticated(c)
    /\ Notification' = {IF n.user = c THEN [n EXCEPT !.is_read = TRUE] ELSE n :
                           n \in Notification}
    /\ resp' = Response("notifications", c, 0, "render", "none",
                   <<{n \in Notification' : n.user = c}>>)
    /\ UNCHANGED <<User, StudentProfile, MentorProfile, Report, Task, Project, Course,
                   StudentCourseProgress, EmojiReaction, inflight, seq>>

\* ------------------------------------------------------------ administration
\* Report.student with on_delete DO_NOTHING
ReportsAfterDelete_Kept(u) == Report

\* Report.student, on_delete=CASCADE
ReportsAfterDelete(u) == {r \in Report : r.student # u}

\* Task.mentor / Project.mentor, on_delete=CASCADE, and the rows of the students
\* relation, which go with either side
ItemsAfterDelete(items, sps, mps) ==
    {[t EXCEPT !.students = @ \ sps] : t \in {x \in items : x.mentor \notin mps}}

\* User.clean without the test of the existing profile
CleanFails_Off(u, type) == FALSE

\* User.clean, models.py lines 57-74: the type of a saved user cannot be switched
\* to mentor while a student profile exists, nor to student while a mentor
\* profile exists
CleanFails(u, type) ==
    /\ user_type(u) # type
    /\ \/ type = MENTOR /\ HasStudentProfile(u)
       \/ type = STUDENT /\ HasMentorProfile(u)

\* admin.site.register(User): the administrator saves user u with a user type
\* chosen in the change form, which runs User.clean
admin_change_user_type(u, type) ==
    /\ u \in UserIds /\ type \in UserType
    /\ User' = IF CleanFails(u, type) THEN User
               ELSE (User \ {Row(User, u)}) \cup {[Row(User, u) EXCEPT !.user_type = type]}
    /\ UNCHANGED <<StudentProfile, MentorProfile, Report, Task, Project, Course,
                   StudentCourseProgress, EmojiReaction, Notification, inflight, seq, resp>>

\* admin.site.register(User): the administrator deletes user u, and the
\* on_delete=CASCADE of every relation removes the rows that hang on it
DeleteUser(u) ==
    /\ u \in UserIds
    /\ LET sps == {p.id : p \in {q \in StudentProfile : q.user = u}}
           mps == {p.id : p \in {q \in MentorProfile : q.user = u}}
       IN /\ User' = {x \in User : x.id # u}
          /\ StudentProfile' = {p \in StudentProfile : p.user # u}
          /\ MentorProfile' = {p \in MentorProfile : p.user # u}
          /\ Report' = ReportsAfterDelete(u)
          /\ Notification' = {n \in Notification : n.user # u}
          /\ StudentCourseProgress' = {p \in StudentCourseProgress : p.student \notin sps}
          /\ EmojiReaction' = {e \in EmojiReaction : e.student \notin sps}
          /\ Task' = ItemsAfterDelete(Task, sps, mps)
          /\ Project' = ItemsAfterDelete(Project, sps, mps)
    /\ UNCHANGED <<Course, inflight, seq, resp>>

\* ---------------------------------------------------------- specifications
Tables == {"User", "StudentProfile", "MentorProfile", "Report", "Task", "Project",
           "StudentCourseProgress", "Notification"}

\* The state after deployment: the options exist, every other table is empty
Init ==
    /\ User = {} /\ StudentProfile = {} /\ MentorProfile = {}
    /\ Report = {} /\ Task = {} /\ Project = {} /\ Course = {}
    /\ StudentCourseProgress = {} /\ EmojiReaction = {} /\ Notification = {}
    /\ inflight = EmptyBag
    /\ seq = [t \in Tables |-> 1]
    /\ resp = NoResponse

\* Accounts: the requests that create, authenticate and edit users
Next ==
    \/ \E v \in {"signup", "mentor_signup", "login"}, c \in Requesters : auth_page(v, c)
    \/ \E n \in Usernames, e \in Emails, o \in OptionInputs : signup(n, e, o)
    \/ \E n \in Usernames, e \in MentorEmails, o \in OptionInputs : mentor_signup(n, e, o)
    \/ \E r \in BagToSet(inflight) : signup_atomic(r)
    \/ \E r \in BagToSet(inflight) : mentor_signup_atomic(r)
    \/ \E n \in Usernames, ok \in BOOLEAN : login_user(n, ok)
    \/ \E c \in UserIds : logout_user(c)
    \/ \E c \in UserIds : user_profile(c, "GET", None, None)
    \/ \E c \in UserIds, n \in Usernames \cup {None}, e \in Emails : user_profile(c, "POST", n, e)
    \/ \E u \in UserIds, t \in UserType : admin_change_user_type(u, t)

Spec == Init /\ [][Next]_vars

\* The databases signup and mentor_signup build for MaxUsers users: user i is a
\* student or the mentor of an option, no two mentors share an option, and the
\* profiles are numbered in the order they were inserted
Populations ==
    {f \in [1..MaxUsers -> UserType \X Options] :
        \A i, j \in 1..MaxUsers : (i # j /\ f[i][1] = MENTOR /\ f[j][1] = MENTOR) => f[i][2] # f[j][2]}
NamePool == <<"alice", "bob", "carol", "dave", "erin", "frank">>
Rank(f, i) == Cardinality({j \in 1..i : f[j][1] = f[i][1]})

Populated(f) ==
    /\ User = {[id |-> i, username |-> NamePool[i], email |-> NamePool[i], user_type |-> f[i][1]] :
                   i \in 1..MaxUsers}
    /\ StudentProfile = {[id |-> Rank(f, i), user |-> i, option |-> f[i][2]] :
                             i \in {j \in 1..MaxUsers : f[j][1] = STUDENT}}
    /\ MentorProfile = {[id |-> Rank(f, i), user |-> i, option |-> f[i][2]] :
                            i \in {j \in 1..MaxUsers : f[j][1] = MENTOR}}
    /\ inflight = EmptyBag
    /\ resp = NoResponse

SeqAfter(f) ==
    [t \in Tables |->
        CASE t = "User" -> MaxUsers + 1
          [] t = "StudentProfile" -> Cardinality({j \in 1..MaxUsers : f[j][1] = STUDENT}) + 1
          [] t = "MentorProfile" -> Cardinality({j \in 1..MaxUsers : f[j][1] = MENTOR}) + 1
          [] OTHER -> 1]

\* Reports: the report views over a populated database
InitReports ==
    \E f \in Populations :
        /\ Populated(f)
        /\ seq = SeqAfter(f)
        /\ Report = {} /\ Task = {} /\ Project = {} /\ Course = {}
        /\ StudentCourseProgress = {} /\ EmojiReaction = {} /\ Notification = {}

ReportIds == 1..MaxReports
\* the statuses the report views are driven with here: two of the choices, a value
\* outside them and a missing field
SomeStatuses == {"draft", "approved", "bogus", None}

NextReports ==
    \/ \E c \in UserIds : create_report(c, "GET", None, None)
    \/ \E c \in UserIds, st \in SomeStatuses, h \in HoursInputs : create_report(c, "POST", st, h)
    \/ \E c \in UserIds, pk \in ReportIds : report_view(c, pk, "GET", None)
    \/ \E c \in UserIds, pk \in ReportIds, mk \in MarkInputs : report_view(c, pk, "POST", mk)
    \/ \E c \in UserIds, pk \in ReportIds : edit_report(c, pk, "GET", None, None)
    \/ \E c \in UserIds, pk \in ReportIds, st \in SomeStatuses, h \in HoursInputs :
           edit_report(c, pk, "POST", st, h)
    \/ \E c \in UserIds, pk \in ReportIds, m \in Methods : delete_report(c, pk, m)

SpecReports == InitReports /\ [][NextReports]_vars

\* The course catalogues an administrator can have entered: MaxCourses rows,
\* each in some option, with an order that may repeat
OrderValues == {1, 2}
CourseIds == 1..MaxCourses
CourseTables ==
    {{[id |-> i, option |-> g[i][1], order |-> g[i][2]] : i \in CourseIds} :
        g \in [CourseIds -> Options \X OrderValues]}

\* The progress tables that can have been entered for the students sps: at most
\* MaxProgress rows, numbered in any order, one per (student, course)
ProgressTables(sps, flags) ==
    LET absent == <<0, 0, FALSE>>
        slots == [1..MaxProgress -> (sps \X CourseIds \X flags) \cup {absent}]
        one_per_pair(g) ==
            \A i, j \in 1..MaxProgress :
                (i # j /\ g[i] # absent /\ g[i][1] = g[j][1] /\ g[i][2] = g[j][2]) => FALSE
    IN {{[id |-> i, student |-> g[i][1], course |-> g[i][2],
          completed |-> g[i][3], reacted |-> FALSE] :
             i \in {j \in 1..MaxProgress : g[j] # absent}} :
           g \in {h \in slots : one_per_pair(h)}}

\* Courses: the course page over a populated database with a catalogue and
\* progress records
InitCourses ==
    \E f \in Populations :
        /\ Populated(f)
        /\ seq = [SeqAfter(f) EXCEPT !.StudentCourseProgress = MaxProgress + 1]
        /\ Course \in CourseTables
        /\ StudentCourseProgress \in ProgressTables({p.id : p \in StudentProfile}, BOOLEAN)
        /\ Report = {} /\ Task = {} /\ Project = {}
        /\ EmojiReaction = {} /\ Notification = {}

NextCourses == \E c \in UserIds : courses(c)

SpecCourses == InitCourses /\ [][NextCourses]_vars

\* the catalogue of the reaction runs: the course of each id, options alternating
Catalogue ==
    {[id |-> i, option |-> IF i % 2 = 1 THEN "Backend" ELSE "Frontend", order |-> i] :
        i \in CourseIds}

\* every student has opened the first course of the catalogue
OpenedFirstCourse ==
    {[id |-> p.id, student |-> p.id, course |-> 1,
      completed |-> FALSE, reacted |-> FALSE] : p \in StudentProfile}

\* Reactions: react_course over a populated database with a catalogue, with
\* and without progress records
InitReact ==
    \E f \in Populations :
        /\ Populated(f)
        /\ seq = [SeqAfter(f) EXCEPT !.StudentCourseProgress = Cardinality(StudentProfile) + 1]
        /\ Course = Catalogue
        /\ StudentCourseProgress \in {{}, OpenedFirstCourse}
        /\ Report = {} /\ Task = {} /\ Project = {}
        /\ EmojiReaction = {} /\ Notification = {}

NextReact ==
    \E c \in UserIds, k \in CourseIds \cup {MaxCourses + 1}, e \in EmojiInputs : react_course(c, k, e)

SpecReact == InitReact /\ [][NextReact]_vars

\* The rows the users of R have entered: each student of R a report, a reaction
\* to the first course with its progress record, and a notification; each mentor
\* of R a notification and, if T is not empty, a task and a project assigned to
\* the student profiles T
Worked(f, R, T) ==
    LET sps == {p \in StudentProfile : p.user \in R}
        mps == IF T = {} THEN {} ELSE {p \in MentorProfile : p.user \in R}
        count(rows) == Cardinality(rows) + 1
    IN /\ Report = {[id |-> p.id, student |-> p.user, option |-> p.option,
                     status |-> "draft", hours_worked |-> 2, mark |-> 0] : p \in sps}
       /\ StudentCourseProgress = {[id |-> p.id, student |-> p.id, course |-> 1,
                                    completed |-> FALSE, reacted |-> TRUE] : p \in sps}
       /\ EmojiReaction = {[student |-> p.id, course |-> 1, emoji |-> "like"] : p \in sps}
       /\ Notification = {[id |-> u, user |-> u, is_read |-> FALSE] : u \in R}
       /\ Task = {[id |-> p.id, option |-> p.option, mentor |-> p.id, students |-> T] :
                     p \in mps}
       /\ Project = {[id |-> p.id, option |-> p.option, mentor |-> p.id, students |-> T] :
                        p \in mps}
       /\ Course = Catalogue
       /\ seq = [SeqAfter(f) EXCEPT !.Report = count(sps),
                                    !.StudentCourseProgress = count(sps),
                                    !.EmojiReaction = count(sps),
                                    !.Notification = MaxUsers + 1,
                                    !.Task = count(mps), !.Project = count(mps)]

\* Administration: users are deleted from a database in which some users have
\* entered rows
InitCascade ==
    \E f \in Populations :
        /\ Populated(f)
        /\ \E R \in SUBSET (1..MaxUsers), T \in SUBSET {p.id : p \in StudentProfile} :
               Worked(f, R, T)

NextCascade == \E u \in UserIds : DeleteUser(u)

SpecCascade == InitCascade /\ [][NextCascade]_vars

\* Roles: every view that tests the role is requested by a user of the other
\* role, and the views that serve both roles by any user, in a database in
\* which every user has entered rows
InitRoles ==
    \E f \in Populations :
        /\ Populated(f)
        /\ Worked(f, 1..MaxUsers, {p.id : p \in StudentProfile})

Mentors == {u \in UserIds : user_type(u) = MENTOR}
Students == {u \in UserIds : user_type(u) = STUDENT}
Pks == 1..MaxUsers

NextRoles ==
    \/ \E c \in Mentors : index(c)
    \/ \E c \in Mentors, m \in Methods : create_report(c, m, "draft", "2")
    \/ \E c \in Mentors, pk \in Pks, m \in Methods : edit_report(c, pk, m, "draft", "2")
    \/ \E c \in Mentors, pk \in Pks, m \in Methods : delete_report(c, pk, m)
    \/ \E c \in Mentors : courses(c)
    \/ \E c \in Mentors, k \in CourseIds, e \in EmojiInputs : react_course(c, k, e)
    \/ \E c \in Mentors : all_users(c)
    \/ \E c \in Students : mentor_dashboard(c)
    \/ \E c \in Students, m \in Methods : create_task(c, m, "task", {"1"}, "2026-01-01T10:00")
    \/ \E c \in Students, m \in Methods :
           create_project(c, m, "project", {"1"}, "2026-01-01T10:00")
    \/ \E c \in UserIds, pk \in Pks : report_view(c, pk, "GET", None)
    \/ \E c \in UserIds : user_profile(c, "GET", None, None)
    \/ \E c \in UserIds : view_notifications(c)

SpecRoles == InitRoles /\ [][NextRoles]_vars

\* Items: create_task and create_project over a populated database
InitItems ==
    \E f \in Populations :
        /\ Populated(f)
        /\ seq = SeqAfter(f)
        /\ Report = {} /\ Task = {} /\ Project = {} /\ Course = {}
        /\ StudentCourseProgress = {} /\ EmojiReaction = {} /\ Notification = {}

NextItems ==
    \/ \E c \in UserIds : create_task(c, "GET", None, {}, None)
    \/ \E c \in UserIds, ty \in TypeInputs, ids \in StudentIdInputs, due \in DueDateInputs :
           create_task(c, "POST", ty, ids, due)
    \/ \E c \in UserIds : create_project(c, "GET", None, {}, None)
    \/ \E c \in UserIds, ty \in TypeInputs, due \in DueDateInputs :
           create_project(c, "POST", ty, {"1"}, due)

SpecItems == InitItems /\ [][NextItems]_vars

\* Scopes: the pages that list records are opened by every user, and students
\* submit reports, in a database in which some users have entered rows
InitScopes ==
    \E f \in Populations :
        /\ Populated(f)
        /\ \E R \in SUBSET (1..MaxUsers), T \in SUBSET {p.id : p \in StudentProfile} :
               Worked(f, R, T)

NextScopes ==
    \/ \E c \in UserIds : index(c)
    \/ \E c \in UserIds, m \in Methods : create_report(c, m, "draft", "2")
    \/ \E c \in UserIds : all_users(c)
    \/ \E c \in UserIds : mentor_dashboard(c)
    \/ \E c \in UserIds : create_task(c, "GET", None, {}, None)

SpecScopes == InitScopes /\ [][NextScopes]_vars

\* ------------------------------------------------------------------ claims
\* the requester is the student who wrote the report
IsOwner(c, r) == user_type(c) = STUDENT /\ r.student = c
\* the requester is the mentor whose option is the report's
IsMentorOfOption(c, r) ==
    user_type(c) = MENTOR /\ \E p \in MentorProfile : p.user = c /\ p.option = r.option

\* a step of the named view: every view answers with its own name, so a step that
\* ends with resp.view = v is a request to v by resp.user for the pk resp.arg
StepOf(v) == resp'.view = v /\ inflight' = inflight

\* the report pk exists and its student column is c
OwnedBy(c, pk) == HasRow(Report, pk) /\ Row(Report, pk).student = c

\* C1: report_view renders a report only for its owner or for the mentor of the
\* report's option; for every other requester the request ends forbidden and no
\* report changes.
C1_ReportViewGate ==
    [][(StepOf("report-view") /\ HasRow(Report, resp'.arg)) =>
          LET r == Row(Report, resp'.arg)
              allowed == IsOwner(resp'.user, r) \/ IsMentorOfOption(resp'.user, r)
          IN /\ resp'.outcome = "render" => allowed
             /\ ~allowed => (resp'.outcome = "forbidden" /\ Report' = Report)]_vars

\* a mentor of another option asked for an existing report and was refused
C1_Witness ==
    /\ resp.view = "report-view" /\ resp.outcome = "forbidden"
    /\ HasRow(Report, resp.arg)
    /\ user_type(resp.user) = MENTOR
    /\ ~IsMentorOfOption(resp.user, Row(Report, resp.arg))

\* C2: a report's mark changes only in a POST to report_view by the mentor of the
\* report's option, which stores the posted mark; edit_report leaves every mark
\* alone; and the owner is shown the stored mark.
C2_MarkMentorOnly ==
    [][/\ \A r \in Report : \A r2 \in Report' :
              (r2.id = r.id /\ r2.mark # r.mark) =>
                  \E c \in UserIds, mk \in MarkInputs :
                      /\ report_view(c, r.id, "POST", mk)
                      /\ IsMentorOfOption(c, r)
                      /\ r2.mark = ParseNumber(mk)
       /\ StepOf("edit") =>
              \A r \in Report : \A r2 \in Report' : r2.id = r.id => r2.mark = r.mark
       /\ (StepOf("report-view") /\ HasRow(Report, resp'.arg)
              /\ IsOwner(resp'.user, Row(Report, resp'.arg))) =>
              /\ resp'.outcome = "render"
              /\ resp'.shown[1].mark = Row(Report, resp'.arg).mark]_vars

\* the owner of a report that the mentor marked 8 is shown the mark 8
C2_Witness ==
    /\ resp.view = "report-view" /\ resp.outcome = "render"
    /\ HasRow(Report, resp.arg)
    /\ IsOwner(resp.user, Row(Report, resp.arg))
    /\ resp.shown[1].mark = 8

\* C9 as claimed: a requester who is not the owner is answered forbidden by
\* edit_report and delete_report
C9_NonOwnerForbidden ==
    [][((StepOf("edit") \/ StepOf("delete")) /\ HasRow(Report, resp'.arg)
            /\ Row(Report, resp'.arg).student # resp'.user) =>
          (resp'.outcome = "forbidden" /\ Report' = Report)]_vars

\* C9, amended: a requester who is not the owner is answered not-found by
\* edit_report and delete_report and no report changes; the owner's GET to
\* delete_report deletes nothing, and the owner's POST deletes the report.
C9_NonOwnerNotFound ==
    [][/\ ((StepOf("edit") \/ StepOf("delete")) /\ HasRow(Report, resp'.arg)
              /\ Row(Report, resp'.arg).student # resp'.user) =>
              (resp'.outcome = "notfound" /\ Report' = Report)
       /\ (StepOf("edit") \/ StepOf("delete")) =>
              \A r \in Report : r.id # resp'.arg => r \in Report'
       /\ StepOf("delete") =>
              \A c \in UserIds, pk \in ReportIds :
                  /\ delete_report(c, pk, "GET") => Report' = Report
                  /\ (delete_report(c, pk, "POST") /\ OwnedBy(c, pk)) => ~HasRow(Report', pk)]_vars

\* a user who is not the owner asked to delete an existing report and was
\* answered not-found
C9_Witness ==
    /\ resp.view = "delete" /\ resp.outcome = "notfound"
    /\ HasRow(Report, resp.arg)
    /\ Row(Report, resp.arg).student # resp.user

\* C3: no two MentorProfile rows refer to the same Option, whatever the
\* interleaving of mentor_signup requests.
C3_OneMentorPerOption ==
    \A p, q \in MentorProfile : p.option = q.option => p = q

\* a mentor_signup request passed the "already assigned" check and is about to
\* insert, while another request has taken its option
C3_Witness ==
    \E r \in BagToSet(inflight) :
        r.view = "mentor_signup" /\ \E p \in MentorProfile : p.option = r.option

\* C4: no user has both a StudentProfile and a MentorProfile.
C4_NeverBothProfiles ==
    \A u \in User : ~(HasStudentProfile(u.id) /\ HasMentorProfile(u.id))

\* a student and a mentor exist and one of them has just saved the profile form
C4_Witness ==
    /\ StudentProfile # {} /\ MentorProfile # {}
    /\ resp.view = "profile" /\ resp.outcome = "redirect_profile"

\* C5: at most one EmojiReaction exists per (student, course); a react_course
\* request for a pair that already has a reaction returns the failed status and
\* leaves every reaction as it was.
C5_OneReactionPerPair ==
    [][/\ \A e1, e2 \in EmojiReaction' :
              (e1.student = e2.student /\ e1.course = e2.course) => e1 = e2
       /\ StepOf("react_course") =>
              \A x \in EmojiReaction, p \in StudentProfile, e \in EmojiInputs :
                  (p.id = x.student /\ react_course(p.user, x.course, e)) =>
                      (resp'.outcome = "failed" /\ EmojiReaction' = EmojiReaction)]_vars

\* a student who had reacted to a course reacted again and met the constraint
C5_Witness ==
    /\ resp.view = "react_course" /\ resp.error = "UNIQUE constraint failed"
    /\ EmojiReaction # {}

\* C7: the course page of a student lists exactly the courses of the student's
\* option, in ascending order of the order column.
C7_CourseListing ==
    (resp.view = "courses" /\ resp.outcome = "render") =>
        LET listing == resp.shown[1]
            option == StudentOf(resp.user).option
        IN /\ {listing[i] : i \in DOMAIN listing} = {k \in Course : k.option = option}
           /\ Cardinality(DOMAIN listing) = Cardinality({k \in Course : k.option = option})
           /\ \A i, j \in DOMAIN listing : i < j => listing[i].order <= listing[j].order

\* a student was shown the two courses of the option, the one with the larger id
\* and the smaller order first
C7_Witness ==
    /\ resp.view = "courses" /\ resp.outcome = "render"
    /\ Cardinality(DOMAIN resp.shown[1]) >= 2
    /\ resp.shown[1][1].id > resp.shown[1][2].id
    /\ resp.shown[1][1].order < resp.shown[1][2].order

\* the student of profile sp has a completed progress record for course k
Completed(sp, k) ==
    \E p \in StudentCourseProgress : p.student = sp /\ p.course = k.id /\ p.completed

\* C10: next_course is the first listed course for which the student has no
\* completed progress record, and none when every listed course is completed,
\* whatever the ids of the progress records.
C10_NextCourse ==
    (resp.view = "courses" /\ resp.outcome = "render") =>
        LET listing == resp.shown[1]
            sp == StudentOf(resp.user).id
            open == {i \in DOMAIN listing : ~Completed(sp, listing[i])}
        IN resp.shown[2] = IF open = {} THEN <<>>
                           ELSE <<listing[CHOOSE i \in open : \A j \in open : i <= j]>>

\* C6: deleting a User removes, in the same step, the user's profile, reports,
\* reactions, progress records and notifications and the tasks and projects of
\* the user's mentor profile; afterwards no row refers to the deleted user or to
\* the deleted profile.
C6_DeleteCascades ==
    [][\A u \in UserIds : u \notin UserIds' =>
          LET sps == {p.id : p \in {q \in StudentProfile : q.user = u}}
              mps == {p.id : p \in {q \in MentorProfile : q.user = u}}
          IN /\ \A p \in StudentProfile' \cup MentorProfile' : p.user # u
             /\ \A r \in Report' : r.student # u
             /\ \A n \in Notification' : n.user # u
             /\ \A e \in EmojiReaction' \cup StudentCourseProgress' : e.student \notin sps
             /\ \A t \in Task' \cup Project' : t.mentor \notin mps /\ t.students \cap sps = {}]_vars

\* a student was deleted together with a report, while another user's report,
\* reaction and notification remain
C6_Witness ==
    /\ Cardinality(User) < MaxUsers
    /\ Cardinality(Report) + 1 < seq.Report
    /\ Report # {} /\ EmojiReaction # {} /\ Notification # {}

\* the views of C8 that serve students, and those that serve mentors
StudentViews == {"home", "reports", "edit", "delete", "courses", "classmates"}
MentorViews == {"mentor_dashboard", "create_task", "create_project"}

\* the step is a response of one of the views to a user of the other role
WrongRoleStep(views, role) ==
    \E v \in views : StepOf(v) /\ user_type(resp'.user) # role

\* C8 as stated: a student view requested by a mentor, and a mentor view requested
\* by a student, ends in the forbidden outcome with no state changed.
C8_WrongRoleForbidden ==
    [][(WrongRoleStep(StudentViews, STUDENT) \/ WrongRoleStep(MentorViews, MENTOR)) =>
          (resp'.outcome = "forbidden" /\ db' = db)]_vars

\* C8: a request from a user of the other role changes no state and ends in the
\* forbidden outcome on home, daily-reports, mentor dashboard, create-task and
\* create-project, in the JSON failure with status 403 on react, in a redirect to
\* home with an error message on courses, and in not-found on edit-report and
\* delete-report; classmates tests no role and renders the student profiles for
\* a mentor, and profile and notifications answer neither role with forbidden.
C8_WrongRoleOutcomes ==
    [][/\ (WrongRoleStep({"home", "reports"}, STUDENT) \/ WrongRoleStep(MentorViews, MENTOR)) =>
              (resp'.outcome = "forbidden" /\ db' = db)
       /\ WrongRoleStep({"edit", "delete"}, STUDENT) =>
              (resp'.outcome = "notfound" /\ db' = db)
       /\ WrongRoleStep({"courses"}, STUDENT) =>
              (resp'.outcome = "redirect_home" /\ resp'.msg = "error" /\ db' = db)
       /\ WrongRoleStep({"classmates"}, STUDENT) =>
              (resp'.outcome = "render" /\ resp'.shown = <<StudentProfile>> /\ db' = db)
       /\ (StepOf("profile") \/ StepOf("notifications")) => resp'.outcome # "forbidden"
       /\ StepOf("react_course") =>
              \A c \in UserIds, k \in CourseIds, e \in EmojiInputs :
                  (user_type(c) # STUDENT /\ react_course(c, k, e)) =>
                      (resp'.outcome = "failed" /\ resp'.http = 403 /\ db' = db)]_vars

\* a mentor asked to delete a student's existing report and was answered
\* not-found, the report still there
C8_Witness ==
    /\ resp.view = "delete" /\ resp.outcome = "notfound"
    /\ user_type(resp.user) = MENTOR
    /\ HasRow(Report, resp.arg)

\* the step is a response of create_task or create_project
ItemStep == StepOf("create_task") \/ StepOf("create_project")

\* C11: a create_task / create_project POST that fails commits nothing: Task and
\* Project are as before; a successful POST adds exactly one item, of the
\* requesting mentor, whose students are exactly the posted ids.
C11_ItemAtomic ==
    [][ItemStep =>
          IF resp'.msg = "success"
          THEN LET added == (Task' \ Task) \cup (Project' \ Project)
               IN /\ Task \subseteq Task' /\ Project \subseteq Project'
                  /\ Cardinality(Task') + Cardinality(Project') =
                         Cardinality(Task) + Cardinality(Project) + 1
                  /\ \A t \in added :
                         /\ t.students = {ParseNumber(i) : i \in resp'.arg}
                         /\ t.mentor = MentorOf(resp'.user).id
          ELSE Task' = Task /\ Project' = Project]_vars

\* a mentor's POST naming a student without a profile was refused after an item
\* had been created, and the item is all there is
C11_Witness ==
    /\ resp.view = "create_task" /\ resp.msg = "success_error"
    /\ Cardinality(Task) + Cardinality(Project) = 1

\* C12: in every reachable state every student assigned to a Task or Project has
\* a StudentProfile whose option is the option of the item and of its mentor.
C12_AssignedSameOption ==
    \A t \in Task \cup Project :
        /\ \E m \in MentorProfile : m.id = t.mentor /\ m.option = t.option
        /\ \A i \in t.students :
               \E p \in StudentProfile : p.id = i /\ p.option = t.option

\* C13: in every reachable state every Report has a status in STATUS_CHOICES,
\* whatever status create_report and edit_report are posted.
C13_StatusInChoices == \A r \in Report : r.status \in STATUS_CHOICES

\* the pair (student, course) has a reaction / a progress record with reacted set
Reacted(rows, sp, k) == \E x \in rows : x.student = sp /\ x.course = k
Flagged(rows, sp, k) == \E p \in rows : p.student = sp /\ p.course = k /\ p.reacted

\* C14 as stated: after a success the reaction of the pair exists and the pair's
\* progress record has reacted = true, after a failure nothing has changed, and a
\* reaction exists for a pair exactly when its progress record has reacted = true.
C14_ReactionIffReacted ==
    [][StepOf("react_course") =>
          /\ resp'.outcome = "failed" =>
                 (EmojiReaction' = EmojiReaction /\
                  StudentCourseProgress' = StudentCourseProgress)
          /\ \A p \in StudentProfile, k \in CourseIds :
                 Reacted(EmojiReaction', p.id, k) <=>
                     Flagged(StudentCourseProgress', p.id, k)]_vars

\* C14: after a success exactly one reaction has been added and the progress
\* records of its pair, if there are any, have reacted = true, all else as it
\* was; after a failure neither table has changed; a progress record with
\* reacted = true has its reaction, and a pair with a reaction has no progress
\* record with reacted = false.
C14_ReactAtomic ==
    [][StepOf("react_course") =>
          /\ IF resp'.outcome = "success"
             THEN \E x \in EmojiReaction' \ EmojiReaction :
                      /\ EmojiReaction' = EmojiReaction \cup {x}
                      /\ StudentCourseProgress' =
                             {IF p.student = x.student /\ p.course = x.course
                              THEN [p EXCEPT !.reacted = TRUE] ELSE p :
                                  p \in StudentCourseProgress}
             ELSE /\ EmojiReaction' = EmojiReaction
                  /\ StudentCourseProgress' = StudentCourseProgress
          /\ \A p \in StudentCourseProgress' :
                 p.reacted <=> Reacted(EmojiReaction', p.student, p.course)]_vars

\* a student has reacted to the opened course, whose record is flagged, and to a
\* course without a progress record
C14_Witness ==
    /\ resp.view = "react_course" /\ resp.outcome = "success"
    /\ \E x \in EmojiReaction : Flagged(StudentCourseProgress, x.student, x.course)
    /\ \E x \in EmojiReaction :
           \A p \in StudentCourseProgress : ~(p.student = x.student /\ p.course = x.course)

\* the profiles of user u in the given profile table
ProfilesOf(rows, u) == {p \in rows : p.user = u}

\* C15: every user has exactly one profile, of the kind of its role, and every
\* profile belongs to a user; no step changes the role of a user; a signup or
\* mentor_signup request answered with an error leaves users and profiles as
\* they were.
C15_ProfileMatchesRole ==
    [][/\ \A u \in User' :
              /\ Cardinality(ProfilesOf(StudentProfile', u.id)) =
                     (IF u.user_type = STUDENT THEN 1 ELSE 0)
              /\ Cardinality(ProfilesOf(MentorProfile', u.id)) =
                     (IF u.user_type = MENTOR THEN 1 ELSE 0)
       /\ \A p \in StudentProfile' \cup MentorProfile' : \E u \in User' : u.id = p.user
       /\ \A u \in User, v \in User' : u.id = v.id => u.user_type = v.user_type
       /\ (resp'.view \in {"signup", "mentor_signup"} /\ resp'.msg \in {"error", "exception"}) =>
              (User' = User /\ StudentProfile' = StudentProfile /\
               MentorProfile' = MentorProfile)]_vars

\* a mentor_signup request that had passed the check lost the option to another
\* request inside the transaction and was answered with the exception
C15_Witness ==
    /\ resp.view = "mentor_signup" /\ resp.msg = "exception"
    /\ inflight = EmptyBag
    /\ \E p \in MentorProfile : TRUE

\* C17: no two users created by signup share a username or an email, whatever
\* the interleaving of signup requests.
C17_SignupCredentialsUnique ==
    \A u, v \in User :
        (u.user_type = STUDENT /\ v.user_type = STUDENT /\
         (u.username = v.username \/ u.email = v.email)) => u = v

\* the step renders the page of view v
Renders(v) == StepOf(v) /\ resp'.outcome = "render"

\* what C16 and its correction share: the mentor pages show rows of the mentor's
\* option only, home and daily-reports show the student's own reports and the
\* items assigned to the student, and a report's option is its author's
ScopedPages ==
    /\ Renders("mentor_dashboard") =>
           \A i \in 1..4 : \A x \in resp'.shown[i] : x.option = MentorOf(resp'.user).option
    /\ Renders("create_task") =>
           /\ \A i \in 1..4 : \A x \in resp'.shown[i] : x.option = MentorOf(resp'.user).option
           /\ \A i \in 1..2 : \A x \in resp'.shown[i] : x.mentor = MentorOf(resp'.user).id
    /\ Renders("home") =>
           /\ \A r \in resp'.shown[1] : r.student = resp'.user
           /\ \A i \in 2..3 : \A x \in resp'.shown[i] : StudentOf(resp'.user).id \in x.students
    /\ Renders("reports") => \A r \in resp'.shown[1] : r.student = resp'.user
    /\ \A r \in Report' : \E p \in StudentProfile' : p.user = r.student /\ p.option = r.option

\* C16 as stated: the scoped pages, and classmates shows a student only
\* profiles of the student's own option.
C16_NoLeakAcrossScopes ==
    [][/\ ScopedPages
       /\ (Renders("classmates") /\ user_type(resp'.user) = STUDENT) =>
              \A p \in resp'.shown[1] : p.option = StudentOf(resp'.user).option]_vars

\* C16: the scoped pages, and classmates shows any user the profile of every
\* other student, of whatever option.
C16_ScopedExceptClassmates ==
    [][/\ ScopedPages
       /\ Renders("classmates") =>
              resp'.shown[1] = {p \in StudentProfile : p.user # resp'.user}]_vars

\* a mentor opened the dashboard while the only reports are of another option,
\* and none is shown
C16_Witness ==
    /\ resp.view = "mentor_dashboard" /\ resp.outcome = "render"
    /\ Report # {} /\ resp.shown[2] = {}

\* the view a redirect leads to does not answer user u with forbidden
Admits(outcome, u) ==
    CASE outcome = "redirect_home" -> user_type(u) = STUDENT
      [] outcome = "redirect_mentor_dashboard" -> MentorOnly(u)
      [] OTHER -> TRUE

\* C18: the view a user is redirected to by signup, mentor_signup or login_user,
\* after a success or when opening the page already authenticated, admits the
\* user's role.
C18_RedirectAdmitsRole ==
    (resp.view \in {"signup", "mentor_signup", "login"} /\ resp.user # Anonymous) =>
        Admits(resp.outcome, resp.user)

====
